---- MODULE Spec2Model ----
(***************************************************************************)
(* Model of the `useFetch` hook of src/src/App.tsx (lines 80-136).         *)
(*                                                                         *)
(* One component instance uses the hook.  The hook keeps three state cells *)
(* (data, loading, error) and an effect keyed on `url`.  Every run of the  *)
(* effect creates an AbortController, calls setLoading(true) and starts    *)
(* the async function fetchData; the effect's cleanup aborts that          *)
(* controller.  fetchData suspends twice: at `await fetch(...)` and at     *)
(* `await response.json()`.  Each resumption runs to the next await or to  *)
(* the end of the function without interruption (single-threaded event     *)
(* loop), so every resumption is one action.                               *)
(*                                                                         *)
(* The network is the environment: it chooses the status, the body, a      *)
(* transport rejection, and the order in which the promises of different   *)
(* requests settle.  A request whose signal is aborted while it is         *)
(* suspended settles with an AbortError (cooperative cancellation).        *)
(***************************************************************************)
EXTENDS Integers, Sequences, FiniteSets, TLC

\* Number of runs of the effect (sessions) explored.
MaxSessions == 3

\* JavaScript `null`, the initial value of the data and error cells.
Null == "null"

\* The URL App passes to the hook, and a second one the prop can change to.
url0 == "https://api.example.com/data"
Urls == {url0, "https://api.example.com/other"}

\* HTTP status codes the server may answer with.
Statuses == {200, 404, 500}

\* Response bodies the server may send (raw text).
Bodies == {"[30]", "[31]", "<html>"}

\* Messages of the errors fetchData can catch.
ErrPeticion == "Error en la petición"
ErrTransport == "TypeError: Failed to fetch"
ErrSyntax == "SyntaxError: Unexpected token"
ErrAbort == "AbortError: The user aborted a request."

\* State of a request record before its handler has written anything.
NoState == <<>>

\* Fixed texts of the Root View.
LoadingText == "Cargando..."
ErrorLabel == "UPS! Hay un error: "

\* `undefined`: the value of a prop the parent did not pass.
Undefined == "undefined"

\* Labels and handlers a parent may pass to Button.
Labels == {"Send", "Ok"}
Methods == {Undefined, "increment", "decrement"}

\* Number of activations of the button explored.
MaxClicks == 3

VARIABLES
    url,        \* the `url` argument of the last committed render
    phase,      \* "rendered" (effect not yet run), "mounted", "unmounted"
    data,       \* state cell `data`
    loading,    \* state cell `loading`
    error,      \* state cell `error`
    reqs,       \* one record per run of the effect, in creation order
    uncaught,   \* TRUE once the promise of some fetchData() call rejected
    issued,     \* number of calls of fetch() made so far
    started,    \* number of session starts: the first mount and url changes
    view,       \* what App returned at its last render
    label,          \* prop `label` of the Button
    parentMethod,   \* prop `parentMethod` of the Button
    button,         \* the element Button returned at its last render
    counter,        \* state of the parent, changed by its handlers
    calls,          \* number of calls of a handler of the parent
    clicks,         \* number of activations of the button
    fault           \* TRUE once an activation raised an error

hookVars == <<url, phase, data, loading, error, reqs, uncaught, issued,
              started, view>>

buttonVars == <<label, parentMethod, button, counter, calls, clicks, fault>>

vars == <<url, phase, data, loading, error, reqs, uncaught, issued, started,
          view, label, parentMethod, button, counter, calls, clicks, fault>>

\* response.ok: the status is in the range 200-299.
ResponseOkBelow500(status) == status >= 200 /\ status <= 499

ResponseOk(status) == status >= 200 /\ status <= 299

\* response.json(): parses the body text; throws a SyntaxError on text that
\* is not JSON.
JsonParses(body) == body \in {"[30]", "[31]"}

JsonValue(body) ==
    CASE body = "[30]" -> "Array(30)"
      [] body = "[31]" -> "Array(31)"

\* A state setter returned by useState: React applies the update to a
\* component that is mounted and discards it for one that was unmounted.
SetStateNoGuard(ph, cur, new) == new

SetState(ph, cur, new) == IF ph = "unmounted" THEN cur ELSE new

\* `catch (err)` of fetchData has no filter: every thrown value is caught.
CaughtNoSyntax(err) == err # ErrSyntax

Caught(err) == TRUE

\* setLoading(true) at the start of the effect.
LoadingAtStartKept(cur) == cur

LoadingAtStart(cur) == TRUE

\* setError(null) after setData(jsonData) in the try block.
ErrorAfterDataKept(cur) == cur

ErrorAfterData(cur) == Null

\* finally block: setLoading(false).
LoadingAtFinallyKept(cur) == cur

LoadingAtFinally(cur) == FALSE

\* The catch block calls setError only: data keeps its value.
DataAtCatchCleared(cur) == Null

DataAtCatch(cur) == cur

\* The dependency list [url]: the effect runs again only when url differs
\* from the url of the previous render.
DepsAlwaysChanged(prev, next) == TRUE

DepsChanged(prev, next) == prev # next

\* JSON.stringify(data) for the values data can hold.
JsonStringify(d) ==
    CASE d = Null -> "null"
      [] d = "Array(30)" -> "[30]"
      [] d = "Array(31)" -> "[31]"

\* The App component: the three returns, tested in the order loading,
\* error, data.
AppErrorFirst(d, e, l) ==
    IF e # Null THEN [branch |-> "error", text |-> ErrorLabel \o e]
    ELSE IF l THEN [branch |-> "loading", text |-> LoadingText]
    ELSE [branch |-> "data", text |-> JsonStringify(d)]

App(d, e, l) ==
    IF l THEN [branch |-> "loading", text |-> LoadingText]
    ELSE IF e # Null THEN [branch |-> "error", text |-> ErrorLabel \o e]
    ELSE [branch |-> "data", text |-> JsonStringify(d)]

\* Nothing is rendered once the component has unmounted.
NoView == [branch |-> "none", text |-> ""]

\* React renders App again with the state cells after every update.
Render == view' = IF phase' = "unmounted" THEN NoView
                  ELSE App(data', error', loading')

\* A fresh request record: the controller is not aborted, fetchData is
\* suspended at `await fetch(url, {signal})`.
NewRequest(u, alone) ==
    [url |-> u, aborted |-> FALSE, pc |-> "fetch", status |-> 0, body |-> "",
     err |-> Null, solo |-> alone, final |-> NoState]

InFlight(r) == r.pc # "done"

\* The effect's cleanup: controller.abort() of the latest run of the effect.
CleanupNoAbort(rs) == rs

Cleanup(rs) ==
    IF Len(rs) = 0 THEN rs
    ELSE [rs EXCEPT ![Len(rs)].aborted = TRUE]

\* The effect body: new controller, setLoading(true), fetchData() up to its
\* first await, which calls fetch once.
RunEffect(u, rs) ==
    /\ reqs' = Append(rs, NewRequest(u, \A i \in 1..Len(rs) : ~InFlight(rs[i])))
    /\ loading' = SetState("mounted", loading, LoadingAtStart(loading))
    /\ issued' = issued + 1
    /\ UNCHANGED <<data, error, uncaught>>

\* First commit: the effect runs for the initial url.
Mount ==
    /\ phase = "rendered"
    /\ phase' = "mounted"
    /\ RunEffect(url, reqs)
    /\ started' = started + 1
    /\ UNCHANGED url
    /\ Render
    /\ UNCHANGED buttonVars

\* A render with the url u.  When the dependency changed: cleanup of the
\* previous run of the effect, then the effect body for the new url.
ChangeUrl(u) ==
    /\ phase = "mounted"
    /\ DepsChanged(url, u)
    /\ Len(reqs) < MaxSessions
    /\ url' = u
    /\ RunEffect(u, Cleanup(reqs))
    /\ started' = started + (IF u # url THEN 1 ELSE 0)
    /\ UNCHANGED phase
    /\ Render
    /\ UNCHANGED buttonVars

\* A render with the same url: the dependency did not change, the effect
\* and its cleanup do not run.
Rerender ==
    /\ phase = "mounted"
    /\ ~DepsChanged(url, url)
    /\ UNCHANGED <<url, phase, data, loading, error, reqs, uncaught, issued,
                   started>>
    /\ Render
    /\ UNCHANGED buttonVars

\* The component unmounts: cleanup of the latest run of the effect.
Unmount ==
    /\ phase = "mounted"
    /\ phase' = "unmounted"
    /\ reqs' = Cleanup(reqs)
    /\ UNCHANGED <<url, data, loading, error, uncaught, issued, started>>
    /\ Render
    /\ UNCHANGED buttonVars

\* catch block followed by the finally block, for the thrown value err.
\* Nothing is retried.
CatchFinally(i, err, rs) ==
    /\ error' = IF Caught(err) THEN SetState(phase, error, err) ELSE error
    /\ uncaught' = (uncaught \/ ~Caught(err))
    /\ loading' = SetState(phase, loading, LoadingAtFinally(loading))
    /\ data' = DataAtCatch(data)
    /\ reqs' = [rs EXCEPT ![i].pc = "done", ![i].err = err,
                          ![i].final = <<data', error', loading'>>]

\* `await fetch` resolves with a response.  A non-ok status throws the
\* fixed error and the response, with its unread body, is dropped;
\* otherwise fetchData suspends at `await response.json()` on that body.
FetchResolve(i, status, body) ==
    /\ reqs[i].pc = "fetch"
    /\ ~reqs[i].aborted
    /\ LET rs == [reqs EXCEPT ![i].status = status] IN
       IF ResponseOk(status)
       THEN /\ reqs' = [rs EXCEPT ![i].pc = "json", ![i].body = body]
            /\ UNCHANGED <<data, loading, error, uncaught>>
       ELSE CatchFinally(i, ErrPeticion, rs)
    /\ UNCHANGED <<url, phase, issued, started>>
    /\ Render
    /\ UNCHANGED buttonVars

\* `await fetch` rejects with a transport error.
FetchReject(i) ==
    /\ reqs[i].pc = "fetch"
    /\ ~reqs[i].aborted
    /\ CatchFinally(i, ErrTransport, reqs)
    /\ UNCHANGED <<url, phase, issued, started>>
    /\ Render
    /\ UNCHANGED buttonVars

\* The pending await of an aborted request rejects with an AbortError.
AbortReject(i) ==
    /\ reqs[i].pc \in {"fetch", "json"}
    /\ reqs[i].aborted
    /\ CatchFinally(i, ErrAbort, reqs)
    /\ UNCHANGED <<url, phase, issued, started>>
    /\ Render
    /\ UNCHANGED buttonVars

\* `await response.json()` settles: setData, setError(null) and the finally
\* block on a parsed body, the catch and finally blocks on a SyntaxError.
JsonSettle(i) ==
    /\ reqs[i].pc = "json"
    /\ ~reqs[i].aborted
    /\ IF JsonParses(reqs[i].body)
       THEN /\ data' = SetState(phase, data, JsonValue(reqs[i].body))
            /\ error' = SetState(phase, error, ErrorAfterData(error))
            /\ loading' = SetState(phase, loading, LoadingAtFinally(loading))
            /\ reqs' = [reqs EXCEPT ![i].pc = "done",
                                    ![i].final = <<data', error', loading'>>]
            /\ UNCHANGED uncaught
       ELSE CatchFinally(i, ErrSyntax, reqs)
    /\ UNCHANGED <<url, phase, issued, started>>
    /\ Render
    /\ UNCHANGED buttonVars

\* The Button component: a <button> showing the label whose onClick is the
\* parent's handler itself.
ButtonNoHandler(l, m) ==
    [className |-> "custom-button", onClick |-> Undefined, children |-> l]

Button(l, m) ==
    [className |-> "custom-button", onClick |-> m, children |-> l]

\* What a handler of the parent does to the parent's counter.
ApplyMethod(m, c) ==
    CASE m = "increment" -> c + 1
      [] m = "decrement" -> c - 1

\* The parent renders Button with the props l and m.
RenderButton(l, m) ==
    /\ label' = l
    /\ parentMethod' = m
    /\ button' = Button(l, m)
    /\ UNCHANGED <<counter, calls, clicks, fault>>
    /\ UNCHANGED hookVars

\* The user activates the button: the onClick of the rendered element is
\* called once when it is a function; an undefined onClick is no listener.
Click ==
    /\ clicks < MaxClicks
    /\ clicks' = clicks + 1
    /\ IF button.onClick = Undefined
       THEN UNCHANGED <<counter, calls>>
       ELSE /\ calls' = calls + 1
            /\ counter' = ApplyMethod(button.onClick, counter)
    /\ UNCHANGED <<label, parentMethod, button, fault>>
    /\ UNCHANGED hookVars

\* useState initial values (null, true, null) and the first render; no
\* effect has run yet.
Init ==
    /\ url = url0
    /\ phase = "rendered"
    /\ data = Null
    /\ loading = TRUE
    /\ error = Null
    /\ reqs = <<>>
    /\ uncaught = FALSE
    /\ issued = 0
    /\ started = 0
    /\ view = App(Null, Null, TRUE)
    /\ label = "Send"
    /\ parentMethod = "increment"
    /\ button = Button("Send", "increment")
    /\ counter = 0
    /\ calls = 0
    /\ clicks = 0
    /\ fault = FALSE

\* One of the awaits of some request settles.
Settle ==
    \/ \E i \in 1..Len(reqs), s \in Statuses, b \in Bodies : FetchResolve(i, s, b)
    \/ \E i \in 1..Len(reqs) : FetchReject(i)
    \/ \E i \in 1..Len(reqs) : AbortReject(i)
    \/ \E i \in 1..Len(reqs) : JsonSettle(i)

Next ==
    \/ Mount
    \/ \E u \in Urls : ChangeUrl(u)
    \/ Rerender
    \/ Unmount
    \/ \E i \in 1..Len(reqs), s \in Statuses, b \in Bodies : FetchResolve(i, s, b)
    \/ \E i \in 1..Len(reqs) : FetchReject(i)
    \/ \E i \in 1..Len(reqs) : AbortReject(i)
    \/ \E i \in 1..Len(reqs) : JsonSettle(i)

Spec == Init /\ [][Next]_vars

\* The event loop runs every queued task: a committed effect runs, and a
\* promise the network has settled resumes its fetchData.
FairSpec == Spec /\ WF_vars(Mount) /\ WF_vars(Settle)

ButtonNext ==
    \/ \E l \in Labels, m \in Methods : RenderButton(l, m)
    \/ Click

\* The Button on its own, under any parent.
ButtonSpec == Init /\ [][ButtonNext]_vars

TypeOK ==
    /\ url \in Urls
    /\ phase \in {"rendered", "mounted", "unmounted"}
    /\ loading \in BOOLEAN
    /\ uncaught \in BOOLEAN
    /\ Len(reqs) <= MaxSessions
    /\ issued \in 0..MaxSessions
    /\ started \in 0..MaxSessions

(***************************************************************************)
(* Vocabulary of the properties.                                           *)
(***************************************************************************)

\* Number of sessions started so far; the newest request is reqs[N].
N == Len(reqs)

\* Every completion handler that can still run has run.
AllSettled == \A i \in 1..N : reqs[i].pc = "done"

\* The three variants of the observed state.
Pending == loading /\ data = Null /\ error = Null
Success == ~loading /\ data # Null /\ error = Null
Failure == ~loading /\ error # Null /\ data = Null

\* A successful HTTP status: one of the 200-299 range.
ResponseOkStd(status) == status \in 200..299

\* Request i takes a step (one of its awaits settles) in this transition.
Steps(i) == i <= Len(reqs') /\ reqs'[i].pc # reqs[i].pc

\* A session starts in this transition.
SessionStarts == Len(reqs') > Len(reqs)

\* C1: once the URL has changed from U1 to U2 while U1's request was in
\* flight and every handler has run, the state is exactly the outcome of
\* U2's request: U2's data and no error, or U2's error.
C1_FinalStateIsNewest ==
    (phase = "mounted" /\ N >= 2 /\ AllSettled /\ reqs[N - 1].err = ErrAbort)
        => /\ ~loading
           /\ IF reqs[N].err = Null
              THEN data = JsonValue(reqs[N].body) /\ error = Null
              ELSE error = reqs[N].err

\* C2: after a newer request has started, a step of an older request never
\* changes data, error or loading.
C2_StaleNeverWrites ==
    [][\A i \in 1..N : (i < N /\ ~SessionStarts /\ Steps(i))
            => UNCHANGED <<data, error, loading>>]_vars

C4_ExactlyOneVariant == Pending \/ Success \/ Failure

\* C5: every start of a session leaves loading = true, and the new request
\* is still suspended at its fetch, so none of its handlers ran before the
\* reset.
C5_PendingAtStart ==
    [][SessionStarts => (loading' /\ reqs'[Len(reqs')].pc = "fetch")]_vars

\* C5 witness: a second or later session has just started after the
\* previous one had completed (loading was false), and loading is true.
C5_Witness ==
    /\ N >= 2
    /\ reqs[N].pc = "fetch"
    /\ reqs[N].solo
    /\ reqs[N - 1].err # ErrAbort
    /\ loading

\* C6: when the json() of a request that was not cancelled settles on a
\* parseable body of an ok response, the handler leaves loading false,
\* error null and data equal to the decoded body.
C6_SuccessOutcome ==
    [][\A i \in 1..N :
          ( /\ Steps(i)
            /\ reqs[i].pc = "json"
            /\ ~reqs[i].aborted
            /\ ResponseOk(reqs[i].status)
            /\ JsonParses(reqs[i].body) )
          => /\ ~loading'
             /\ error' = Null
             /\ data' = JsonValue(reqs[i].body)]_vars

\* C6 witness: a session failed and the next one succeeded with status 200;
\* the earlier error has been cleared.
C6_Witness ==
    /\ N >= 2
    /\ reqs[N - 1].err = ErrPeticion
    /\ reqs[N].pc = "done"
    /\ reqs[N].status = 200
    /\ reqs[N].err = Null
    /\ data = "Array(30)"
    /\ error = Null
    /\ ~loading

\* C7: a response with a non-ok status, whatever its code and body, ends
\* its request at once with error = the fixed message and loading false;
\* the body is not parsed and setData is not called (data is unchanged).
C7_NonOkIsFixedFailure ==
    [][\A i \in 1..N :
          ( /\ reqs[i].pc = "fetch"
            /\ reqs'[i].status # 0
            /\ ~ResponseOkStd(reqs'[i].status) )
          => /\ reqs'[i].pc = "done"
             /\ error' = ErrPeticion
             /\ ~loading'
             /\ data' = data]_vars

\* C7 witness: a 500 response and, after a successful session, a 404
\* response both ended in the fixed error without going through json();
\* the data of the successful session is still there.
C7_Witness ==
    /\ N >= 3
    /\ reqs[1].status = 500
    /\ reqs[1].final = <<Null, ErrPeticion, FALSE>>
    /\ reqs[2].err = Null
    /\ reqs[2].final = <<"Array(31)", Null, FALSE>>
    /\ reqs[3].status = 404
    /\ reqs[3].pc = "done"
    /\ reqs[3].body = ""
    /\ data = "Array(31)"
    /\ error = ErrPeticion
    /\ ~loading

\* C8: a transport rejection or a body that fails to decode, of a request
\* that was not cancelled, is caught: error holds that error's message,
\* loading is false and no rejection escapes fetchData.
C8_ErrorsCaught ==
    [][\A i \in 1..N :
          ( /\ Steps(i)
            /\ ~reqs[i].aborted
            /\ reqs'[i].pc = "done"
            /\ reqs'[i].err \in {ErrTransport, ErrSyntax} )
          => /\ error' = reqs'[i].err
             /\ ~loading'
             /\ ~uncaught']_vars

\* C8 witness: one request was rejected by the transport, a later one got a
\* body that is not JSON, and the state shows the decode error.
C8_Witness ==
    /\ \E i \in 1..N : reqs[i].err = ErrTransport
    /\ N >= 2
    /\ reqs[N].err = ErrSyntax
    /\ error = ErrSyntax
    /\ ~loading
    /\ ~uncaught

\* C9: inside one session, once the state has left Pending (loading is
\* false) it does not change again until a new session starts.
C9_OneWayPerSession ==
    [][(~loading /\ ~SessionStarts) => UNCHANGED <<data, error, loading>>]_vars

\* A completed request that overlapped no other request: nothing was in
\* flight when it started and it completed before it was aborted.
RanAlone(r) == r.pc = "done" /\ r.solo /\ r.err # ErrAbort

\* C10: two sessions for the same URL that overlap no other session and get
\* the same response (status, body read, error thrown) end in the same (data, error, loading).
C10_Idempotent ==
    \A i \in 1..N : \A j \in 1..N :
        ( /\ i < j
          /\ RanAlone(reqs[i]) /\ RanAlone(reqs[j])
          /\ reqs[i].url = reqs[j].url
          /\ reqs[i].status = reqs[j].status
          /\ reqs[i].body = reqs[j].body
          /\ reqs[i].err = reqs[j].err )
        => reqs[i].final = reqs[j].final

\* Requests still suspended whose signal has not been aborted.
LiveRequests == {i \in 1..N : InFlight(reqs[i]) /\ ~reqs[i].aborted}

\* C11: at most one in-flight request has a signal that is not aborted (the
\* newest one), and once the component has unmounted none has.
C11_OneLiveSignal ==
    /\ Cardinality(LiveRequests) <= 1
    /\ LiveRequests \subseteq {N}
    /\ phase = "unmounted" => LiveRequests = {}

\* C11 witness: after a URL change and an unmount two requests are still
\* suspended, both with an aborted signal.
C11_Witness ==
    /\ phase = "unmounted"
    /\ N >= 2
    /\ InFlight(reqs[N - 1]) /\ reqs[N - 1].aborted
    /\ InFlight(reqs[N]) /\ reqs[N].aborted

\* C15: while the request of the current session is in flight, loading is
\* true.
C15_PendingWhileInFlight ==
    (phase = "mounted" /\ InFlight(reqs[N])) => loading

\* C17: whenever loading is false and error is null, data is not null.
C17_SuccessHasData == (~loading /\ error = Null) => data # Null

\* C17 witness: a stale request was aborted and ran its handler, the
\* current session then succeeded: loading false, error null, data present.
C17_Witness ==
    /\ N >= 2
    /\ reqs[N - 1].err = ErrAbort
    /\ reqs[N].pc = "done"
    /\ reqs[N].err = Null
    /\ ~loading
    /\ error = Null
    /\ data = "Array(31)"

\* Requests that completed with a decoded body.
Succeeded == {i \in 1..N : reqs[i].pc = "done" /\ reqs[i].err = Null}

\* The newest of them.
LastSucceeded == CHOOSE i \in Succeeded : \A j \in Succeeded : j <= i

\* C16: a session start leaves data and error unchanged, a completion that
\* ends in an error leaves data unchanged, and data is always the decoded
\* body of the most recent successful request, or null when there is none.
C16_FailureKeepsData ==
    /\ [][/\ SessionStarts => (data' = data /\ error' = error)
          /\ \A i \in 1..N :
                (Steps(i) /\ reqs'[i].pc = "done" /\ reqs'[i].err # Null)
                    => data' = data]_vars
    /\ [](data = IF Succeeded = {} THEN Null
                 ELSE JsonValue(reqs[LastSucceeded].body))

\* C16 witness: a session succeeded, the next one was started and failed;
\* data still holds the body of the first.
C16_Witness ==
    /\ N >= 2
    /\ reqs[N - 1].pc = "done" /\ reqs[N - 1].err = Null
    /\ reqs[N - 1].body = "[30]"
    /\ reqs[N].err = ErrTransport
    /\ data = "Array(30)"
    /\ error = ErrTransport
    /\ ~loading

\* C12: the number of fetch calls always equals the number of session
\* starts (first mount plus url changes), and a step that is neither the
\* first mount nor a url change (a completion, a failure, a render with the
\* same url, an unmount) issues no request.
C12_OneGetPerSession ==
    /\ [](issued = started)
    /\ [][~(phase = "rendered" \/ url' # url) => issued' = issued]_vars

\* C12 witness: three sessions were started and three requests issued; the
\* first failed, the second was aborted, all have completed.
C12_Witness ==
    /\ started = 3
    /\ issued = 3
    /\ AllSettled
    /\ reqs[1].err = ErrTransport
    /\ reqs[2].err = ErrAbort
    /\ reqs[3].err = ErrPeticion

\* C13: while the component is mounted the view is the loading text
\* whenever loading is true, otherwise the labelled error message whenever
\* error is not null, otherwise the serialized data.
C13_ViewBranch ==
    phase # "unmounted" =>
        /\ loading => view = [branch |-> "loading", text |-> LoadingText]
        /\ (~loading /\ error # Null)
              => view = [branch |-> "error", text |-> ErrorLabel \o error]
        /\ (~loading /\ error = Null)
              => view = [branch |-> "data", text |-> JsonStringify(data)]

\* C13 witness: loading is true while data and error are both set, and the
\* view shows the loading text.
C13_Witness ==
    /\ phase = "mounted"
    /\ loading
    /\ data = "Array(30)"
    /\ error = ErrPeticion
    /\ view = [branch |-> "loading", text |-> "Cargando..."]

\* C18: while the component is mounted every handler that runs to its end
\* leaves loading false, and eventually loading is false for good as long
\* as the component stays mounted.
C18_EventuallySettled ==
    /\ [][\A i \in 1..N :
             (Steps(i) /\ reqs'[i].pc = "done" /\ phase = "mounted")
                 => ~loading']_vars
    /\ <>[](phase = "mounted" => ~loading)

\* C18 witness: after a url change both the aborted and the current request
\* have run their handlers and loading is false.
C18_Witness ==
    /\ phase = "mounted"
    /\ N >= 2
    /\ AllSettled
    /\ reqs[N - 1].err = ErrAbort
    /\ ~loading

\* C14: an activation calls the handler the parent passed exactly once, in
\* the same step, and calls nothing and raises no fault when the handler is
\* undefined; the activation changes nothing of the Button itself.
C14_OneCallPerClick ==
    [][clicks' = clicks + 1 =>
          /\ IF parentMethod = Undefined
             THEN calls' = calls /\ counter' = counter
             ELSE calls' = calls + 1
                  /\ counter' = ApplyMethod(parentMethod, counter)
          /\ ~fault'
          /\ UNCHANGED <<label, parentMethod, button>>]_vars

\* C14 witness: label "Send" with the incrementing handler was activated
\* once (counter 1); the handler was then omitted and a second activation
\* did nothing.
C14_Witness ==
    /\ label = "Send"
    /\ parentMethod = Undefined
    /\ clicks = 2
    /\ calls = 1
    /\ counter = 1
    /\ ~fault
====
